---- MODULE Spec2Model ----
(***************************************************************************)
(* A model of nzb_check.py: the per-article protocol session               *)
(* (check_article), the manifest parser (parse_nzb), the scheduler and     *)
(* aggregator (main) and the top-level interrupt handling (__main__).      *)
(*                                                                         *)
(* One session step is the code between two suspension points of the       *)
(* coroutine: a command written, drained and its reply awaited.  What the  *)
(* server does at each step (a reply line, silence until the timeout, a    *)
(* transport failure) is chosen nondeterministically.                      *)
(***************************************************************************)
EXTENDS Integers, Sequences, FiniteSets, TLC

\* ---- bounds of the model ------------------------------------------------
NumIds == 2
MaxManifest == 3
MaxConnections == 2

ArticleIds == 1..NumIds

\* ---- the statuses check_article returns (True / False / None) ------------
Found == "True"
Missing == "False"
Error == "None"
Undetermined == "undetermined"

\* ---- reply lines, as the byte strings the code tests with startswith -----
Code200 == <<2, 0, 0>>
Code281 == <<2, 8, 1>>
Code223 == <<2, 2, 3>>
Code381 == <<3, 8, 1>>
Code430 == <<4, 3, 0>>
Code481 == <<4, 8, 1>>
Code502 == <<5, 0, 2>>
Eof == <<>>

\* bytes.startswith
StartsWith(response, prefix) ==
    /\ Len(response) >= Len(prefix)
    /\ SubSeq(response, 1, Len(prefix)) = prefix

\* What one awaited I/O delivers: a line, or an exception.  "timeout" is
\* asyncio.TimeoutError out of wait_for, "reset" an OSError of the transport,
\* "overrun" the ValueError readline raises for a line over the stream limit.
Line(l) == [kind |-> "line", data |-> l]
Failure(k) == [kind |-> k, data |-> <<>>]
NoEvent == Failure("none")
Connected == Failure("connected")
IOFailures == {Failure("timeout"), Failure("reset")}

\* The server's behaviour at each step: one representative of every class of
\* reply the code can tell apart (the expected code, another code, the empty
\* line of a closed stream), silence, or a broken transport.
ConnectEvents == {Connected, Failure("timeout"), Failure("refused")}
GreetingEvents == {Line(Code200), Line(Code502)} \cup IOFailures
UserEvents == {Line(Code381), Line(Code481)} \cup IOFailures
PassEvents == {Line(Code281), Line(Code481)} \cup IOFailures
StatEvents == {Line(Code223), Line(Code430), Line(Eof)} \cup IOFailures
QuitEvents == {Line(Eof)} \cup IOFailures \cup {Failure("overrun")}
ClosedEvents == {Failure("closed"), Failure("reset")}

\* ---- the manifest ---------------------------------------------------------
\* An NZB file: well-formed with a list of segment texts, or unparsable.
Manifests == UNION {[1..n -> ArticleIds] : n \in 0..MaxManifest}
NzbFiles == {[wellformed |-> TRUE, segments |-> m] : m \in Manifests}
               \cup {[wellformed |-> FALSE, segments |-> <<>>]}

Range(s) == {s[i] : i \in 1..Len(s)}

\* list(set(article_ids)): every distinct text once.  The order Python gives
\* the list is immaterial (all tasks are created together); the model keeps
\* the order of first occurrence.
RECURSIVE Unique(_)
Unique(s) ==
    IF s = <<>> THEN <<>>
    ELSE LET front == Unique(SubSeq(s, 1, Len(s) - 1))
             x == s[Len(s)]
         IN IF x \in Range(front) THEN front ELSE Append(front, x)


\* parse_nzb without the set(): every segment text, duplicates included
parse_nzb_keeps_duplicates(nzb) == IF nzb.wellformed THEN nzb.segments ELSE <<>>

\* parse_nzb: the segments' texts, deduplicated; [] when parsing raises
parse_nzb(nzb) == IF nzb.wellformed THEN Unique(nzb.segments) ELSE <<>>

\* A task is an element of the list `tasks`, named by its position.
Tasks == 1..MaxManifest

NoReplies == [connect |-> NoEvent, greeting |-> NoEvent, user |-> NoEvent,
              pass |-> NoEvent, stat |-> NoEvent]

VARIABLES
    nzb_file,        \* args.nzb_file: the manifest given on the command line
    connections,     \* args.connections
    username,        \* args.username ("" when not configured)
    mainPc,          \* where main / __main__ stands
    article_ids,     \* main: the parsed identifiers (a list)
    total_articles,  \* main: len(article_ids)
    semaphore,       \* the value of the asyncio.Semaphore
    completed,       \* as_completed: finished tasks not yet awaited, in completion order
    results,         \* main: the collected (article_id, status) pairs
    summary,         \* main: found_count, missing_count, error_count, missing_articles
    exit_status,     \* the exit status of the process, once it has exited
    pc,              \* per task: where check_article stands
    writer,          \* per task: writer is set and not yet closed (a connection is open)
    status,          \* per task: the value of the return statement that was reached
    heard,           \* per task: what each awaited I/O of the try block delivered
    sent,            \* per task: the commands written to the connection
    exc,             \* per task: the exception propagating through the finally block
    cancelPending    \* per task: Task.cancel() was called and CancelledError not yet thrown

vars == <<nzb_file, connections, username, mainPc, article_ids, total_articles,
          semaphore, completed, results, summary, exit_status,
          pc, writer, status, heard, sent, exc, cancelPending>>

mainVars == <<mainPc, article_ids, total_articles, results, summary, exit_status>>
argVars == <<nzb_file, connections, username>>

Terminal == {"returned", "raised", "cancelled"}
InBlock == {"connect", "greeting", "authuser", "authpass", "stat"}
Closing == {"quit", "closing"}
Exited == {"noids", "summary", "crash_exit", "interrupt_exit"}

NoSummary == [found_count |-> 0, missing_count |-> 0, error_count |-> 0,
              missing_articles |-> <<>>]

Init ==
    /\ nzb_file \in NzbFiles
    /\ connections \in 0..MaxConnections
    /\ username \in {"", "user"}
    /\ mainPc = "start"
    /\ article_ids = <<>>
    /\ total_articles = 0
    /\ semaphore = 0
    /\ completed = <<>>
    /\ results = <<>>
    /\ summary = NoSummary
    /\ exit_status = 0
    /\ pc = [t \in Tasks |-> "unborn"]
    /\ writer = [t \in Tasks |-> FALSE]
    /\ status = [t \in Tasks |-> Undetermined]
    /\ heard = [t \in Tasks |-> NoReplies]
    /\ sent = [t \in Tasks |-> {}]
    /\ exc = [t \in Tasks |-> "none"]
    /\ cancelPending = [t \in Tasks |-> FALSE]

\* ---- check_article --------------------------------------------------------
\* A value of pc[t] names the await the coroutine is suspended on; an action
\* is the arrival of what that await delivers, followed by the code up to the
\* next await.  A failing write or drain shows as the failure of the read
\* that follows it: the same handlers catch both.

\* writer.write(command)
Write(t, command) == sent' = [sent EXCEPT ![t] = @ \cup {command}]

\* A task that finished is handed to the as_completed iterator, which main
\* drains while it is in its collection loop.
Finish(t) ==
    completed' = IF mainPc = "collect" THEN Append(completed, t) ELSE completed

\* the block is left by a plain return: the finally block with the close
\* phase is missing
LeaveBlock_skips_close(t, st) ==
    /\ semaphore' = semaphore + 1
    /\ status' = [status EXCEPT ![t] = st]
    /\ pc' = [pc EXCEPT ![t] = "returned"]
    /\ Finish(t)
    /\ UNCHANGED sent

\* the block is left without the semaphore being released
LeaveBlock_keeps_permit(t, st) ==
    /\ UNCHANGED semaphore
    /\ status' = [status EXCEPT ![t] = st]
    /\ IF writer[t]
       THEN /\ pc' = [pc EXCEPT ![t] = "quit"]
            /\ Write(t, "QUIT")
            /\ UNCHANGED completed
       ELSE /\ pc' = [pc EXCEPT ![t] = "returned"]
            /\ Finish(t)
            /\ UNCHANGED sent

\* Leaving the `async with semaphore` block by a return statement or by an
\* exception the except clauses turn into `return article_id, None`: the
\* semaphore is released, then the finally block runs: it writes QUIT and
\* awaits the goodbye line if writer is set, and does nothing otherwise.
LeaveBlock(t, st) ==
    /\ semaphore' = semaphore + 1
    /\ status' = [status EXCEPT ![t] = st]
    /\ IF writer[t]
       THEN /\ pc' = [pc EXCEPT ![t] = "quit"]
            /\ Write(t, "QUIT")
            /\ UNCHANGED completed
       ELSE /\ pc' = [pc EXCEPT ![t] = "returned"]
            /\ Finish(t)
            /\ UNCHANGED sent

\* the welcome line is printed but not tested
GreetingOk_unchecked(response) == TRUE

\* line 32
GreetingOk(response) == StartsWith(response, Code200)

\* the reply to AUTHINFO PASS is printed but not tested
AuthOk_unchecked(response) == TRUE

\* line 47
AuthOk(response) == StartsWith(response, Code281)

\* every reply other than 223 is reported as inconclusive
StatStatus_no_missing(response) == IF StartsWith(response, Code223) THEN Found ELSE Error

\* lines 60-63
StatStatus(response) == IF StartsWith(response, Code223) THEN Found ELSE Missing
\* authentication is attempted whether or not a username is configured
AuthConfigured_always == TRUE

\* line 36: `if username:`
AuthConfigured == username # ""

\* the block is entered without waiting for a free permit
Acquire_unguarded(t) ==
    /\ pc[t] = "acquire"
    /\ ~cancelPending[t]
    /\ semaphore' = semaphore - 1
    /\ pc' = [pc EXCEPT ![t] = "connect"]
    /\ UNCHANGED <<argVars, mainVars, completed, writer, status, heard, sent, exc,
                   cancelPending>>

\* a semaphore that still admits one task when its value is 0
Acquire_off_by_one(t) ==
    /\ pc[t] = "acquire"
    /\ ~cancelPending[t]
    /\ semaphore >= 0
    /\ semaphore' = semaphore - 1
    /\ pc' = [pc EXCEPT ![t] = "connect"]
    /\ UNCHANGED <<argVars, mainVars, completed, writer, status, heard, sent, exc,
                   cancelPending>>

\* line 20: the semaphore is acquired; open_connection is started
Acquire(t) ==
    /\ pc[t] = "acquire"
    /\ ~cancelPending[t]
    /\ semaphore > 0
    /\ semaphore' = semaphore - 1
    /\ pc' = [pc EXCEPT ![t] = "connect"]
    /\ UNCHANGED <<argVars, mainVars, completed, writer, status, heard, sent, exc,
                   cancelPending>>

\* lines 24-30: open_connection under wait_for ends; the welcome line is awaited
Connect(t) ==
    /\ pc[t] = "connect"
    /\ ~cancelPending[t]
    /\ \E e \in ConnectEvents :
          /\ heard' = [heard EXCEPT ![t].connect = e]
          /\ IF e = Connected
             THEN /\ writer' = [writer EXCEPT ![t] = TRUE]
                  /\ pc' = [pc EXCEPT ![t] = "greeting"]
                  /\ UNCHANGED <<semaphore, status, completed, sent>>
             ELSE /\ LeaveBlock(t, Error)
                  /\ UNCHANGED writer
    /\ UNCHANGED <<argVars, mainVars, exc, cancelPending>>

\* lines 30-40 and 51-56: the welcome line is tested; then AUTHINFO USER is
\* written if a username is configured, STAT <article_id> if not
Greeting(t) ==
    /\ pc[t] = "greeting"
    /\ ~cancelPending[t]
    /\ \E e \in GreetingEvents :
          /\ heard' = [heard EXCEPT ![t].greeting = e]
          /\ IF e.kind = "line" /\ GreetingOk(e.data)
             THEN /\ IF AuthConfigured
                     THEN /\ Write(t, "AUTHINFO USER")
                          /\ pc' = [pc EXCEPT ![t] = "authuser"]
                     ELSE /\ Write(t, "STAT")
                          /\ pc' = [pc EXCEPT ![t] = "stat"]
                  /\ UNCHANGED <<semaphore, status, completed>>
             ELSE LeaveBlock(t, Error)
    /\ UNCHANGED <<argVars, mainVars, writer, exc, cancelPending>>

\* the reply to AUTHINFO USER is tested for 381 before the password is sent
AuthUser_checks_reply(t) ==
    /\ pc[t] = "authuser"
    /\ ~cancelPending[t]
    /\ \E e \in UserEvents :
          /\ heard' = [heard EXCEPT ![t].user = e]
          /\ IF e.kind = "line" /\ StartsWith(e.data, Code381)
             THEN /\ Write(t, "AUTHINFO PASS")
                  /\ pc' = [pc EXCEPT ![t] = "authpass"]
                  /\ UNCHANGED <<semaphore, status, completed>>
             ELSE LeaveBlock(t, Error)
    /\ UNCHANGED <<argVars, mainVars, writer, exc, cancelPending>>

\* lines 40-45: the reply to AUTHINFO USER is read and only printed; then
\* AUTHINFO PASS is written
AuthUser(t) ==
    /\ pc[t] = "authuser"
    /\ ~cancelPending[t]
    /\ \E e \in UserEvents :
          /\ heard' = [heard EXCEPT ![t].user = e]
          /\ IF e.kind = "line"
             THEN /\ Write(t, "AUTHINFO PASS")
                  /\ pc' = [pc EXCEPT ![t] = "authpass"]
                  /\ UNCHANGED <<semaphore, status, completed>>
             ELSE LeaveBlock(t, Error)
    /\ UNCHANGED <<argVars, mainVars, writer, exc, cancelPending>>

\* lines 45-56: the reply to AUTHINFO PASS is tested; then STAT is written
AuthPass(t) ==
    /\ pc[t] = "authpass"
    /\ ~cancelPending[t]
    /\ \E e \in PassEvents :
          /\ heard' = [heard EXCEPT ![t].pass = e]
          /\ IF e.kind = "line" /\ AuthOk(e.data)
             THEN /\ Write(t, "STAT")
                  /\ pc' = [pc EXCEPT ![t] = "stat"]
                  /\ UNCHANGED <<semaphore, status, completed>>
             ELSE LeaveBlock(t, Error)
    /\ UNCHANGED <<argVars, mainVars, writer, exc, cancelPending>>

\* lines 56-70: the reply to STAT decides the status
Stat(t) ==
    /\ pc[t] = "stat"
    /\ ~cancelPending[t]
    /\ \E e \in StatEvents :
          /\ heard' = [heard EXCEPT ![t].stat = e]
          /\ IF e.kind = "line"
             THEN LeaveBlock(t, StatStatus(e.data))
             ELSE LeaveBlock(t, Error)
    /\ UNCHANGED <<argVars, mainVars, writer, exc, cancelPending>>

\* line 79: TimeoutError and OSError (IOError, BrokenPipeError) are caught;
\* any other exception goes on through the inner finally
CaughtOnClose(e) == e \in IOFailures

\* lines 75-84: the goodbye read under the 5 s wait_for ends; writer.close()
\* is called and wait_closed() awaited
CloseQuit(t) ==
    /\ pc[t] = "quit"
    /\ ~cancelPending[t]
    /\ \E e \in QuitEvents :
          exc' = [exc EXCEPT ![t] =
                     IF e.kind = "line" \/ CaughtOnClose(e) THEN @ ELSE "ValueError"]
    /\ pc' = [pc EXCEPT ![t] = "closing"]
    /\ UNCHANGED <<argVars, mainVars, semaphore, completed, writer, status, heard,
                   sent, cancelPending>>

\* How the call ends once the finally block is through: by the exception
\* that is propagating, else by the return statement that was reached.
EndOfCall(pending) ==
    CASE pending = "none" -> "returned"
      [] pending = "CancelledError" -> "cancelled"
      [] OTHER -> "raised"

\* lines 84-85: wait_closed() ends; it raises the error the connection was
\* lost with, and nothing catches that
CloseWait(t) ==
    /\ pc[t] = "closing"
    /\ ~cancelPending[t]
    /\ writer' = [writer EXCEPT ![t] = FALSE]
    /\ \E e \in ClosedEvents :
          /\ exc' = [exc EXCEPT ![t] = IF e = Failure("reset") THEN "OSError" ELSE @]
          /\ pc' = [pc EXCEPT ![t] = EndOfCall(exc'[t])]
    /\ Finish(t)
    /\ UNCHANGED <<argVars, mainVars, semaphore, status, heard, sent, cancelPending>>

\* CancelledError thrown into the task at the await it is suspended on.  It is
\* no Exception, so no except clause of check_article catches it: the
\* semaphore block is left, the finally block runs, and the error goes on.
Cancelled(t) ==
    /\ cancelPending[t]
    /\ pc[t] \notin Terminal
    /\ cancelPending' = [cancelPending EXCEPT ![t] = FALSE]
    /\ exc' = [exc EXCEPT ![t] = "CancelledError"]
    /\ semaphore' = IF pc[t] \in InBlock THEN semaphore + 1 ELSE semaphore
    /\ CASE pc[t] \in {"acquire", "connect", "closing"} ->
               /\ pc' = [pc EXCEPT ![t] = "cancelled"]
               /\ writer' = [writer EXCEPT ![t] = FALSE]
               /\ UNCHANGED sent
         [] pc[t] = "quit" ->
               /\ pc' = [pc EXCEPT ![t] = "closing"]
               /\ UNCHANGED <<writer, sent>>
         [] OTHER ->
               /\ pc' = [pc EXCEPT ![t] = "quit"]
               /\ Write(t, "QUIT")
               /\ UNCHANGED writer
    /\ UNCHANGED <<argVars, mainVars, completed, status, heard>>

\* ---- main and __main__ ----------------------------------------------------


\* the loop without its final else: a None status is counted nowhere
Count_without_else(acc, result) ==
    IF result[2] = Found
    THEN [acc EXCEPT !.found_count = @ + 1]
    ELSE IF result[2] = Missing
         THEN [acc EXCEPT !.missing_count = @ + 1,
                          !.missing_articles = Append(@, result[1])]
         ELSE acc

\* every result that is not True is listed as missing
Count_lists_errors(acc, result) ==
    IF result[2] = Found
    THEN [acc EXCEPT !.found_count = @ + 1]
    ELSE IF result[2] = Missing
         THEN [acc EXCEPT !.missing_count = @ + 1,
                          !.missing_articles = Append(@, result[1])]
         ELSE [acc EXCEPT !.error_count = @ + 1,
                          !.missing_articles = Append(@, result[1])]

\* lines 140-147: one collected result is counted
Count(acc, result) ==
    IF result[2] = Found
    THEN [acc EXCEPT !.found_count = @ + 1]
    ELSE IF result[2] = Missing
         THEN [acc EXCEPT !.missing_count = @ + 1,
                          !.missing_articles = Append(@, result[1])]
         ELSE [acc EXCEPT !.error_count = @ + 1]

\* lines 135-147: the loop over results
RECURSIVE Tally(_)
Tally(rs) ==
    IF rs = <<>> THEN NoSummary
    ELSE Count(Tally(SubSeq(rs, 1, Len(rs) - 1)), rs[Len(rs)])


\* the status is taken in submission order, as if tasks finished in the
\* order they were created
Outcome_in_submission_order(t) == <<article_ids[t], status[Len(results) + 1]>>

\* line 126: the coroutine's return value, `article_id, status`
Outcome(t) == <<article_ids[t], status[t]>>

\* lines 113-128: the manifest is parsed; with no identifiers main returns
\* and the process ends; otherwise the semaphore and one task per element of
\* article_ids are created
Parse ==
    /\ mainPc = "start"
    /\ article_ids' = parse_nzb(nzb_file)
    /\ IF article_ids' = <<>>
       THEN /\ mainPc' = "noids"
            /\ exit_status' = 0
            /\ UNCHANGED <<total_articles, semaphore, pc>>
       ELSE /\ mainPc' = "collect"
            /\ total_articles' = Len(article_ids')
            /\ semaphore' = connections
            /\ pc' = [t \in Tasks |-> IF t <= Len(article_ids') THEN "acquire" ELSE "unborn"]
            /\ UNCHANGED exit_status
    /\ UNCHANGED <<argVars, completed, results, summary, writer, status, heard, sent,
                   exc, cancelPending>>

\* lines 131-157: main awaits the next finished task.  A task that raised
\* makes `await future` raise, and main ends with that exception; a result
\* is appended, and after the last one the results are counted, the summary
\* is printed and the process ends.
Collect ==
    /\ mainPc = "collect"
    /\ completed # <<>>
    /\ completed' = Tail(completed)
    /\ LET t == Head(completed) IN
          IF pc[t] = "raised"
          THEN /\ mainPc' = "crashed"
               /\ UNCHANGED <<results, summary, exit_status>>
          ELSE /\ results' = Append(results, Outcome(t))
               /\ IF Len(results') = total_articles
                  THEN /\ summary' = Tally(results')
                       /\ mainPc' = "summary"
                       /\ exit_status' = 0
                  ELSE UNCHANGED <<mainPc, summary, exit_status>>
    /\ UNCHANGED <<argVars, article_ids, total_articles, semaphore, pc, writer, status,
                   heard, sent, exc, cancelPending>>

\* Ctrl-C while the event loop runs: main is taken out of its await
Interrupt ==
    /\ mainPc = "collect"
    /\ mainPc' = "interrupted"
    /\ UNCHANGED <<argVars, article_ids, total_articles, semaphore, completed, results,
                   summary, exit_status, pc, writer, status, heard, sent, exc,
                   cancelPending>>

\* the tasks still waiting for the semaphore are left alone
CancelAll_skips_waiting ==
    /\ mainPc \in {"crashed", "interrupted"}
    /\ mainPc' = IF mainPc = "crashed" THEN "crash_cleanup" ELSE "interrupt_cleanup"
    /\ cancelPending' = [t \in Tasks |-> pc[t] \in InBlock \cup Closing]
    /\ UNCHANGED <<argVars, article_ids, total_articles, semaphore, completed, results,
                   summary, exit_status, pc, writer, status, heard, sent, exc>>

\* asyncio.run, on its way out: every task that has not finished is cancelled
CancelAll ==
    /\ mainPc \in {"crashed", "interrupted"}
    /\ mainPc' = IF mainPc = "crashed" THEN "crash_cleanup" ELSE "interrupt_cleanup"
    /\ cancelPending' = [t \in Tasks |-> pc[t] \notin (Terminal \cup {"unborn"})]
    /\ UNCHANGED <<argVars, article_ids, total_articles, semaphore, completed, results,
                   summary, exit_status, pc, writer, status, heard, sent, exc>>

\* lines 180-183: asyncio.run returns control once the cancelled tasks have
\* finished.  KeyboardInterrupt is caught, a message printed, and the script
\* runs off its end; any other exception ends the interpreter with status 1.
Exit ==
    /\ mainPc \in {"crash_cleanup", "interrupt_cleanup"}
    /\ \A t \in Tasks : pc[t] \in Terminal \cup {"unborn"}
    /\ mainPc' = IF mainPc = "crash_cleanup" THEN "crash_exit" ELSE "interrupt_exit"
    /\ exit_status' = IF mainPc = "crash_cleanup" THEN 1 ELSE 0
    /\ UNCHANGED <<argVars, article_ids, total_articles, semaphore, completed, results,
                   summary, pc, writer, status, heard, sent, exc, cancelPending>>

Step(t) ==
    \/ Acquire(t)
    \/ Connect(t)
    \/ Greeting(t)
    \/ AuthUser(t)
    \/ AuthPass(t)
    \/ Stat(t)
    \/ CloseQuit(t)
    \/ CloseWait(t)
    \/ Cancelled(t)

Next ==
    \/ Parse
    \/ Collect
    \/ Interrupt
    \/ CancelAll
    \/ Exit
    \/ \E t \in Tasks : Step(t)

Spec == Init /\ [][Next]_vars

\* ---- properties -----------------------------------------------------------

Launched == {t \in Tasks : pc[t] # "unborn"}
Admitted == {t \in Tasks : pc[t] \in InBlock}
OpenConnections == {t \in Tasks : writer[t]}
Collected == {results[i][1] : i \in 1..Len(results)}
InputIds == Range(nzb_file.segments)
IsCode(e, code) == e.kind = "line" /\ StartsWith(e.data, code)
\* a reply line that carries a status code other than `code`
IsOtherCode(e, code) == e.kind = "line" /\ Len(e.data) >= 3 /\ ~StartsWith(e.data, code)

\* C1: whenever a summary is produced, total = found + missing + error, and
\* total is the number of distinct identifiers of the manifest, each of
\* which was handed to the scheduler as one task.
C1_TotalIsSumOfCounts ==
    mainPc = "summary" =>
        /\ total_articles = summary.found_count + summary.missing_count
                               + summary.error_count
        /\ total_articles = Cardinality({article_ids[t] : t \in Launched})
        /\ total_articles = Cardinality(InputIds)

C1_Witness ==
    /\ mainPc = "summary"
    /\ summary.found_count = 1
    /\ summary.error_count = 1
    /\ \E t \in Tasks : heard[t].stat = Failure("reset")

\* C2: at no instant are more connections open (opened and not yet through
\* writer.close()/wait_closed()) than the configured capacity.
C2_OpenConnectionsBounded == Cardinality(OpenConnections) <= connections

\* C3: every call of check_article ends by returning an outcome; no task
\* ends with an exception and main never ends by an exception raised out of
\* `await future`.
C3_EveryCallReturnsAnOutcome ==
    /\ \A t \in Tasks : pc[t] # "raised"
    /\ mainPc \notin {"crashed", "crash_cleanup", "crash_exit"}

\* C4: a failure in the close phase never changes the status the session had
\* determined and never raises past check_article: a call that reached a
\* return statement and was not cancelled ends by returning that status.
C4_CloseFailuresAreSwallowed ==
    \A t \in Tasks :
        (pc[t] \in Terminal /\ status[t] # Undetermined /\ exc[t] # "CancelledError")
            => pc[t] = "returned"

\* C5: a run that was given identifiers and is not interrupted ends with the
\* summary and all K outcomes, whatever the server does.
C5_RunEndsWithAllOutcomes ==
    (mainPc \in Exited /\ mainPc \notin {"noids", "interrupt_exit"})
        => (mainPc = "summary" /\ Len(results) = total_articles)

\* C6: in a session that has read the reply to STAT, a reply starting with
\* 223 gives Found, a reply with another status code gives Missing and a
\* timeout gives Error; a connect attempt that times out gives Error, the
\* call returns it, and the identifier is counted in total and reported.
C6_StatReplyDecidesStatus ==
    \A t \in Tasks :
        /\ IsCode(heard[t].stat, Code223) => status[t] = Found
        /\ IsOtherCode(heard[t].stat, Code223) => status[t] = Missing
        /\ heard[t].stat = Failure("timeout") => status[t] = Error
        /\ heard[t].connect = Failure("timeout") =>
              /\ status[t] = Error
              /\ pc[t] = "returned"
              /\ t <= total_articles
              /\ mainPc = "summary" => \E i \in 1..Len(results) :
                                           results[i] = <<article_ids[t], Error>>
        /\ (pc[t] = "returned" /\ heard[t].stat.kind = "line" /\ mainPc = "summary")
              => \E i \in 1..Len(results) : results[i] = <<article_ids[t], status[t]>>

C6_Witness ==
    /\ mainPc = "summary"
    /\ \E t, u \in Tasks :
          /\ heard[t].connect = Failure("timeout")
          /\ heard[u].stat = Line(Code430)
          /\ status[u] = Missing
          /\ pc[u] = "returned"

\* C7: when the reply to AUTHINFO PASS does not start with 281, the status
\* is Error and STAT is not written to that connection, then or later.
C7_FailedAuthSendsNoStat ==
    \A t \in Tasks :
        (heard[t].pass.kind = "line" /\ ~StartsWith(heard[t].pass.data, Code281))
            => /\ AuthConfigured
               /\ status[t] = Error
               /\ "STAT" \notin sent[t]
               /\ heard[t].stat = NoEvent

C7_Witness ==
    \E t \in Tasks :
        /\ heard[t].pass = Line(Code481)
        /\ pc[t] = "returned"
        /\ "QUIT" \in sent[t]

\* C8: one task is launched and one outcome collected per distinct
\* identifier of the manifest; never more tasks are admitted than the
\* capacity; the manifest [x, x, y] with capacity 1 launches two tasks and
\* gives total = 2.
C8_OneSessionPerDistinctId ==
    /\ mainPc \notin {"start", "noids"} =>
          /\ {article_ids[t] : t \in Launched} = InputIds
          /\ Cardinality(Launched) = Cardinality(InputIds)
          /\ total_articles = Cardinality(InputIds)
    /\ \A i, j \in 1..Len(results) : results[i][1] = results[j][1] => i = j
    /\ mainPc = "summary" => Collected = InputIds
    /\ Cardinality(Admitted) <= connections

C8_Witness ==
    /\ nzb_file.segments = <<1, 1, 2>>
    /\ connections = 1
    /\ mainPc = "summary"
    /\ Cardinality(Launched) = 2
    /\ total_articles = 2

\* C9: the exit status is non-zero exactly when the manifest gave no
\* identifiers or the user interrupted the run.
C9_ExitStatusConvention ==
    mainPc \in Exited =>
        (exit_status # 0 <=> mainPc \in {"noids", "interrupt_exit"})

\* The status the replies of the server to one session call for.
Verdict(h) ==
    IF h.connect # Connected THEN Error
    ELSE IF ~IsCode(h.greeting, Code200) THEN Error
    ELSE IF AuthConfigured /\ h.user.kind # "line" THEN Error
    ELSE IF AuthConfigured /\ ~IsCode(h.pass, Code281) THEN Error
    ELSE IF h.stat.kind # "line" THEN Error
    ELSE IF StartsWith(h.stat.data, Code223) THEN Found
    ELSE Missing

\* C10: the status reported for an identifier is a function of what the
\* server did in that identifier's own session: it does not depend on the
\* interleaving of the sessions, the capacity or the completion order.
C10_StatusDependsOnOwnSessionOnly ==
    /\ \A t \in Tasks : pc[t] = "returned" => status[t] = Verdict(heard[t])
    /\ \A i \in 1..Len(results) :
          \E t \in Launched : /\ results[i][1] = article_ids[t]
                              /\ results[i][2] = Verdict(heard[t])

C10_Witness ==
    /\ mainPc = "summary"
    /\ Len(results) = 2
    /\ results[1][1] = article_ids[2]
    /\ results[1][2] = Found
    /\ results[2][2] = Missing

InterruptPhases == {"interrupted", "interrupt_cleanup", "interrupt_exit"}
Unfinished == {t \in Tasks : pc[t] \notin Terminal \cup {"unborn"}}

C12_ClosePhaseOnEveryOpenedPath ==
    \A t \in Tasks :
        /\ (heard[t].connect = Connected /\ pc[t] \notin InBlock) => "QUIT" \in sent[t]
        /\ (heard[t].connect = Connected /\ pc[t] \in Terminal) => ~writer[t]
        /\ pc[t] \in InBlock => "QUIT" \notin sent[t]
        /\ heard[t].connect # Connected =>
              /\ "QUIT" \notin sent[t]
              /\ ~writer[t]
              /\ pc[t] \notin Closing

C12_Witness ==
    \E t, u \in Tasks :
        /\ pc[t] = "returned"
        /\ heard[t].greeting = Line(Code502)
        /\ "QUIT" \in sent[t]
        /\ ~writer[t]
        /\ pc[u] = "returned"
        /\ heard[u].connect = Failure("refused")
        /\ sent[u] = {}

\* C13: a reply to STAT that carries no status code (the empty line of a
\* closed stream included) gives Error, not Missing.
C13_MalformedStatReplyIsError ==
    \A t \in Tasks :
        (heard[t].stat.kind = "line" /\ Len(heard[t].stat.data) < 3)
            => status[t] = Error

\* C14: when the welcome line does not start with 200, or reading it times
\* out or fails, the status is Error, neither AUTHINFO nor STAT is written,
\* and the connection goes through the close phase and is closed.
C14_BadGreetingEndsSession ==
    \A t \in Tasks :
        (heard[t].greeting # NoEvent /\ ~IsCode(heard[t].greeting, Code200))
            => /\ status[t] = Error
               /\ sent[t] = {"QUIT"}
               /\ heard[t].user = NoEvent
               /\ heard[t].pass = NoEvent
               /\ heard[t].stat = NoEvent
               /\ pc[t] \in Closing \cup Terminal
               /\ pc[t] \in Terminal => ~writer[t]

C14_Witness ==
    \E t, u \in Tasks :
        /\ heard[t].greeting = Failure("timeout")
        /\ pc[t] = "returned"
        /\ sent[t] = {"QUIT"}
        /\ heard[u].greeting = Line(Code502)
        /\ pc[u] = "returned"

\* C15: with no username configured no AUTHINFO command is written and no
\* reply to one is read; an accepted welcome line is followed directly by
\* STAT, and 223 then gives Found, 430 Missing.
C15_NoUsernameSkipsAuth ==
    username = "" =>
        \A t \in Tasks :
            /\ sent[t] \subseteq {"STAT", "QUIT"}
            /\ heard[t].user = NoEvent
            /\ heard[t].pass = NoEvent
            /\ IsCode(heard[t].greeting, Code200) => "STAT" \in sent[t]
            /\ heard[t].stat = Line(Code223) => status[t] = Found
            /\ heard[t].stat = Line(Code430) => status[t] = Missing

C15_Witness ==
    /\ username = ""
    /\ \E t, u \in Tasks :
          /\ pc[t] = "returned" /\ heard[t].stat = Line(Code223) /\ status[t] = Found
          /\ pc[u] = "returned" /\ heard[u].stat = Line(Code430) /\ status[u] = Missing
          /\ sent[t] = {"STAT", "QUIT"}

\* C16: the semaphore neither leaks nor gains a permit: once it is created,
\* its value plus the number of tasks inside the block is the capacity; a
\* task whose status is determined (Error at any stage included) holds no
\* permit; when every task has finished the value is the capacity again.
C16_PermitsAreConserved ==
    mainPc \notin {"start", "noids"} =>
        /\ semaphore + Cardinality(Admitted) = connections
        /\ semaphore \in 0..connections
        /\ \A t \in Tasks : status[t] # Undetermined => t \notin Admitted
        /\ Unfinished = {} => semaphore = connections

C16_Witness ==
    /\ Cardinality(Launched) = 2
    /\ Unfinished = {}
    /\ semaphore = connections
    /\ connections = 1
    /\ \E t, u \in Tasks :
          /\ heard[t].pass = Failure("timeout") /\ status[t] = Error
          /\ heard[u].connect = Failure("refused") /\ status[u] = Error

\* the identifiers whose collected status is False, in the order collected
MissingCollected ==
    LET ms == SelectSeq(results, LAMBDA r : r[2] = Missing)
    IN [i \in 1..Len(ms) |-> ms[i][1]]
CountOf(st) == Cardinality({i \in 1..Len(results) : results[i][2] = st})

\* C17: in the summary every collected outcome is counted in exactly one
\* counter, and the missing list is the identifiers with status Missing,
\* each once, in the order the outcomes were collected.
C17_SummaryFoldsEachOutcomeOnce ==
    mainPc = "summary" =>
        /\ summary.found_count = CountOf(Found)
        /\ summary.missing_count = CountOf(Missing)
        /\ summary.error_count = CountOf(Error)
        /\ summary.missing_articles = MissingCollected
        /\ Len(summary.missing_articles) = summary.missing_count
        /\ \A i, j \in 1..Len(summary.missing_articles) :
              summary.missing_articles[i] = summary.missing_articles[j] => i = j

C17_Witness ==
    /\ mainPc = "summary"
    /\ Len(results) = 2
    /\ summary.missing_articles = <<article_ids[2]>>
    /\ results[1] = <<article_ids[2], Missing>>
    /\ results[2] = <<article_ids[1], Error>>

\* C18: never more tasks are inside the semaphore block than the capacity;
\* a task that leaves the block releases its permit in that step, the one in
\* which its close phase starts or its call ends.
C18_PermitHeldOnlyInsideBlock ==
    [][/\ Cardinality({t \in Tasks : pc'[t] \in InBlock}) <= connections'
       /\ \A t \in Tasks :
             /\ (pc[t] \in InBlock /\ pc'[t] \notin InBlock)
                   => /\ semaphore' = semaphore + 1
                      /\ pc'[t] \in {"quit", "returned", "cancelled"}
             /\ (pc[t] \in Closing /\ pc'[t] # pc[t]) => semaphore' = semaphore]_vars

C18_Witness ==
    /\ connections = 1
    /\ \E t, u \in Tasks :
          /\ pc[t] = "quit"
          /\ status[t] = Found
          /\ pc[u] = "greeting"

\* C19: the reply to AUTHINFO USER is not inspected: whatever line it is,
\* AUTHINFO PASS is written after it (not after a timeout or failure of the
\* read), and STAT is written exactly when the reply to AUTHINFO PASS starts
\* with 281.
C19_UserReplyIsNotInspected ==
    \A t \in Tasks :
        /\ heard[t].user.kind = "line" => "AUTHINFO PASS" \in sent[t]
        /\ heard[t].user \in IOFailures =>
              ("AUTHINFO PASS" \notin sent[t] /\ status[t] = Error)
        /\ "AUTHINFO USER" \in sent[t] =>
              ("STAT" \in sent[t] <=> IsCode(heard[t].pass, Code281))

C19_Witness ==
    \E t \in Tasks :
        /\ heard[t].user = Line(Code481)
        /\ heard[t].pass = Line(Code281)
        /\ heard[t].stat = Line(Code223)
        /\ status[t] = Found
        /\ pc[t] = "returned"

\* C20: with capacity 0 the semaphore is created with value 0: no task is
\* ever admitted, none finishes with an outcome, nothing is collected and
\* the summary is never reached; the run ends only by an interrupt.
C20_ZeroCapacityAdmitsNothing ==
    (connections = 0 /\ mainPc \notin {"start", "noids"}) =>
        /\ semaphore = 0
        /\ \A t \in Launched : pc[t] \in {"acquire", "cancelled"} /\ heard[t] = NoReplies
        /\ completed = <<>>
        /\ results = <<>>
        /\ mainPc \in {"collect"} \cup InterruptPhases

C20_Witness ==
    /\ connections = 0
    /\ mainPc = "collect"
    /\ Cardinality(Launched) = 2
    /\ \A t \in Launched : pc[t] = "acquire"

====
